---- MODULE Spec2Model ----
(***************************************************************************)
(* Memory objects of the HIP adapter (source/adapters/hip/memory.cpp):     *)
(* reference counted buffers, sub-buffers and images over the native       *)
(* driver's allocations.                                                   *)
(*                                                                         *)
(* A memory object is a record of the sequence mem; its handle is its      *)
(* index.  A native resource (device allocation, host-pinned allocation,   *)
(* host registration, array, surface) is a record of the sequence native;  *)
(* its id is its index.  Every operation records the native driver calls   *)
(* it made in calls, and its kind, handle, result and output in last.      *)
(* Any native call may fail: fails is the set of the positions, among the  *)
(* native calls of one operation, of those that return an error.           *)
(*                                                                         *)
(* A call through a handle whose object has been deleted is a use after    *)
(* free by the caller and is no behaviour of this model: an operation is   *)
(* called on a live object, and urMemRelease by a caller that still owns   *)
(* a reference (held).  In ConcSpec, where threads race on one object, an  *)
(* access to the deleted object reads whatever its storage holds (uaf).    *)
(***************************************************************************)
EXTENDS Integers, Sequences, FiniteSets, TLC

VARIABLES mem, native, calls, last, aborted, hist, pc, tres, owned, uaf

vars == <<mem, native, calls, last, aborted, hist, pc, tres, owned, uaf>>

threadVars == <<pc, tres, owned, uaf>>

(* ------------------------------ bounds --------------------------------- *)

\* memory objects and native resources ever created, by specification
MaxObj == 2
MaxRes == 3
MaxLifeObj == 1
MaxLifeRes == 2
MaxPartObj == 2
MaxPartRes == 1
MaxImgObj == 1
MaxImgRes == 2
MaxCtxObj == 2
MaxCtxRes == 2
MaxFmtObj == 1
MaxFmtRes == 2
\* the reference count up to which urMemRetain is called
MaxRef == 2
\* threads of ConcSpec
NThreads == 2
\* the size of a buffer, and the width of size_t in bits
BufSize == 4
WordBits == 3

WordMod == 2 ^ WordBits

(* ------------------------------ values --------------------------------- *)

READ_WRITE == "READ_WRITE"
WRITE_ONLY == "WRITE_ONLY"
READ_ONLY == "READ_ONLY"
USE_HOST_POINTER == "USE_HOST_POINTER"
ALLOC_HOST_POINTER == "ALLOC_HOST_POINTER"
ALLOC_COPY_HOST_POINTER == "ALLOC_COPY_HOST_POINTER"
\* a bit of UR_MEM_FLAGS_MASK, the complement of the six flags above
UNKNOWN_BIT == "UNKNOWN_BIT"

SUCCESS == "SUCCESS"
INVALID_ENUMERATION == "ERROR_INVALID_ENUMERATION"
INVALID_HOST_PTR == "ERROR_INVALID_HOST_PTR"
INVALID_BUFFER_SIZE == "ERROR_INVALID_BUFFER_SIZE"
INVALID_MEM_OBJECT == "ERROR_INVALID_MEM_OBJECT"
INVALID_VALUE == "ERROR_INVALID_VALUE"
INVALID_IMAGE_FORMAT_DESCRIPTOR == "ERROR_INVALID_IMAGE_FORMAT_DESCRIPTOR"
UNSUPPORTED_ENUMERATION == "ERROR_UNSUPPORTED_ENUMERATION"
OUT_OF_HOST_MEMORY == "ERROR_OUT_OF_HOST_MEMORY"
OUT_OF_RESOURCES == "ERROR_OUT_OF_RESOURCES"
UNKNOWN == "ERROR_UNKNOWN"
\* the ur_result_t UR_CHECK_ERROR throws for a failed native call
NATIVE_ERROR == "ERROR_FROM_NATIVE_CALL"
\* detail::ur::die: the process is gone, the call never returns
DIED == "DIED"
\* an exception left the entry point
THROWN == "THROWN"

NullPtr == [id |-> 0, off |-> 0]
NullHost == [kind |-> "null", id |-> 0, off |-> 0]
CallerHost == [kind |-> "caller", id |-> 0, off |-> 0]
NoDesc == [Width |-> 0, Height |-> 0, Depth |-> 0, Format |-> "none", NumChannels |-> 0]

(* --------------------- the native driver, as a double ------------------ *)

\* The state an operation works on.  fails: the native calls of the operation
\* (by position) that return an error.
Start(fails) ==
  [mem |-> mem, native |-> native, calls |-> <<>>, fails |-> fails, died |-> FALSE,
   depth |-> 0]

\* One native driver call: recorded, and failing when its position is in fails.
\* active: the call is made inside the scope of a device-context activation.
Call(st, fn, id, src, size) ==
  [st EXCEPT !.calls = Append(@, [fn |-> fn, id |-> id, src |-> src, size |-> size,
                                  ok |-> (Len(@) + 1 \notin st.fails),
                                  active |-> st.depth > 0])]

\* ScopedContext: the activation of the owning context's device is scoped and
\* reentrant.  depth counts the activations the operation holds above those
\* its caller held.
\* (ActivateMutant: a ScopedContext that binds nothing)
ActivateMutant(st) == st
Activate(st) == [st EXCEPT !.depth = @ + 1]

\* ~ScopedContext, when the scope of Active is left by a return or a throw
Deactivate(st) == [st EXCEPT !.depth = @ - 1]

\* UR_CHECK_ERROR threw: the last native call failed.
Threw(st) == st.calls # <<>> /\ ~st.calls[Len(st.calls)].ok

\* The positions of the calls that failed.
FailedCalls(st) == {i \in 1..Len(st.calls) : ~st.calls[i].ok}

\* A successful allocation call gives a new native resource.
Acquire(st, kind, size, desc) ==
  [st EXCEPT !.native = Append(@, [kind |-> kind, live |-> TRUE, frees |-> 0,
                                   freedBy |-> "", size |-> size, desc |-> desc])]

NewId(st) == Len(st.native) + 1

\* A successful free, unregister or destroy call fn on resource id.
Dispose(st, fn, id) ==
  [st EXCEPT !.native[id].live = FALSE, !.native[id].frees = @ + 1,
             !.native[id].freedBy = fn]

\* A freeing call fn on resource id.
FreeCall(st, fn, id) ==
  LET s == Call(st, fn, id, NullHost, 0)
  IN IF Threw(s) THEN s ELSE Dispose(s, fn, id)

(* --------------------------- the memory object ------------------------- *)

\* The reference count is a signed integer that starts at 1.
InitialReferenceCount == 1

incrementReferenceCount(rc) == rc + 1

decrementReferenceCount(rc) == rc - 1

isBuffer(o) == o.MemType = "Buffer"

isImage(o) == o.MemType = "Surface"

isSubBuffer(o) == isBuffer(o) /\ o.Parent # 0

\* new ur_mem_handle_t_{Context, Parent, MemFlags, Mode, Ptr, HostPtr, Size}
NewBuffer(parent, flags, mode, ptr, hostPtr, size) ==
  [live |-> TRUE, teardowns |-> 0, held |-> 1, RefCount |-> InitialReferenceCount,
   MemType |-> "Buffer", MemFlags |-> flags, Parent |-> parent, MemAllocMode |-> mode,
   Ptr |-> ptr, HostPtr |-> hostPtr, Size |-> size,
   Array |-> 0, SurfObj |-> 0, ImageType |-> "none"]

\* new ur_mem_handle_t_{Context, Array, Surface, MemFlags, ImageType, HostPtr}
NewSurface(array, surf, flags, imageType, hostPtr) ==
  [live |-> TRUE, teardowns |-> 0, held |-> 1, RefCount |-> InitialReferenceCount,
   MemType |-> "Surface", MemFlags |-> flags, Parent |-> 0, MemAllocMode |-> "none",
   Ptr |-> NullPtr, HostPtr |-> hostPtr, Size |-> 0,
   Array |-> array, SurfObj |-> surf, ImageType |-> imageType]

Handles == 1..Len(mem)

(* ------------------------------ urMemRelease --------------------------- *)

\* line 47: "Do nothing if there are other references"
\* (two other tests, against which the properties below are sensitive)
OtherReferencesMutant(cnt) == cnt > 1
OtherReferencesNonNegative(cnt) == cnt >= 0
OtherReferences(cnt) == cnt > 0

\* lines 60-73: the free of a buffer, by allocation mode
\* (FreeBufferMutant: a free that ignores the allocation mode)
FreeBufferMutant(st, o) == FreeCall(st, "hipFree", o.Ptr.id)
FreeBuffer(st, o) ==
  CASE o.MemAllocMode \in {"CopyIn", "Classic"} -> FreeCall(st, "hipFree", o.Ptr.id)
    [] o.MemAllocMode = "UseHostPtr" -> FreeCall(st, "hipHostUnregister", o.HostPtr.id)
    [] o.MemAllocMode = "AllocHostPtr" -> FreeCall(st, "hipFreeHost", o.HostPtr.id)

\* lines 75-79: the surface, then the array
FreeSurface(st, o) ==
  LET s == FreeCall(st, "hipDestroySurfaceObject", o.SurfObj)
  IN IF Threw(s) THEN s ELSE FreeCall(s, "hipFreeArray", o.Array)

\* lines 58-79
NativeTeardown(st, h) ==
  LET o == st.mem[h]
  IN IF isBuffer(o) THEN FreeBuffer(st, o)
     ELSE IF isImage(o) THEN FreeSurface(st, o)
     ELSE st

RECURSIVE MemRelease(_, _)
RECURSIVE DeleteObject(_, _)

\* The deleter of uniqueMemObj: the object's destructor releases the parent of
\* a sub-buffer.
DeleteObject(st, h) ==
  LET s == [st EXCEPT !.mem[h].live = FALSE, !.mem[h].teardowns = @ + 1]
  IN IF isSubBuffer(st.mem[h]) THEN MemRelease(s, st.mem[h].Parent) ELSE s

\* lines 81-93: a result other than success is fatal
\* (UnrecoverableMutant: a release that returns after a failed native call)
UnrecoverableMutant(st) == FALSE
Unrecoverable(st) == Threw(st)

\* lines 41-96.  died: detail::ur::die was reached.
MemRelease(st, h) ==
  LET cnt == decrementReferenceCount(st.mem[h].RefCount)
      s0 == [st EXCEPT !.mem[h].RefCount = cnt]
  IN IF OtherReferences(cnt) THEN s0
     ELSE IF isSubBuffer(s0.mem[h]) THEN DeleteObject(s0, h)
     ELSE LET s1 == Deactivate(NativeTeardown(Activate(s0), h))
              s2 == DeleteObject(s1, h)
          IN IF Unrecoverable(s1) THEN [s2 EXCEPT !.died = TRUE] ELSE s2

\* The operation ends: what it did, and what the caller gets (result, and out
\* when the output parameter was written).
Commit(st, op, h, arg, result, wrote, out) ==
  /\ mem' = st.mem
  /\ native' = st.native
  /\ calls' = st.calls
  /\ last' = [op |-> op, h |-> h, arg |-> arg,
              result |-> IF st.died THEN DIED ELSE result, wrote |-> wrote, out |-> out,
              depth |-> st.depth]
  /\ aborted' = (st.died \/ result = THROWN)

\* The caller gives up one reference it owns.
GiveUp(st, h) == [st EXCEPT !.mem[h].held = @ - 1]

urMemRelease(h, fails) ==
  /\ ~aborted
  /\ mem[h].live /\ mem[h].held > 0
  /\ LET s == MemRelease(GiveUp(Start(fails), h), h)
     IN /\ fails = FailedCalls(s)
        /\ Commit(s, "urMemRelease", h, "", SUCCESS, FALSE, 0)

(* ------------------------------ urMemRetain ---------------------------- *)

\* line 616
\* (RetainAllowedMutant: a retain that accepts a count of 0)
RetainAllowedMutant(rc) == rc >= 0
RetainAllowed(rc) == rc > 0

\* lines 615-619
MemRetain(st, h) ==
  IF RetainAllowed(st.mem[h].RefCount)
  THEN [st |-> [st EXCEPT !.mem[h].RefCount = incrementReferenceCount(@),
                          !.mem[h].held = @ + 1],
        result |-> SUCCESS]
  ELSE [st |-> st, result |-> INVALID_MEM_OBJECT]

urMemRetain(h) ==
  /\ ~aborted
  /\ mem[h].live
  /\ LET r == MemRetain(Start({}), h)
     IN Commit(r.st, "urMemRetain", h, "", r.result, FALSE, 0)

(* ---------------------------- urMemBufferCreate ------------------------ *)

\* line 118
EnableUseHostPtr == FALSE

\* lines 119-121
PerformInitialCopy(flags) ==
  \/ ALLOC_COPY_HOST_POINTER \in flags
  \/ (USE_HOST_POINTER \in flags /\ ~EnableUseHostPtr)

\* lines 131-144: the allocation.  The result names the device pointer, the
\* host pointer the rest of the function uses, and the allocation mode.
AllocateBuffer(st, flags, size, pHost) ==
  IF USE_HOST_POINTER \in flags /\ EnableUseHostPtr
  THEN LET s1 == Call(st, "hipHostRegister", NewId(st), pHost, size)
           id == NewId(s1)
           s2 == Acquire(s1, "registered", size, NoDesc)
           s3 == Call(s2, "hipHostGetDevicePointer", id, pHost, 0)
       IN IF Threw(s1) THEN [st |-> s1, Ptr |-> NullPtr, pHost |-> pHost, mode |-> "Classic"]
          ELSE [st |-> s3, Ptr |-> [id |-> id, off |-> 0],
                pHost |-> [kind |-> "registered", id |-> id, off |-> 0], mode |-> "UseHostPtr"]
  ELSE IF ALLOC_HOST_POINTER \in flags
  THEN LET s1 == Call(st, "hipHostMalloc", NewId(st), NullHost, size)
           id == NewId(s1)
           s2 == Acquire(s1, "pinned", size, NoDesc)
           \* pHost now is the pinned allocation
           pinned == [kind |-> "pinned", id |-> id, off |-> 0]
           s3 == Call(s2, "hipHostGetDevicePointer", id, pinned, 0)
       IN IF Threw(s1) THEN [st |-> s1, Ptr |-> NullPtr, pHost |-> pHost, mode |-> "Classic"]
          ELSE [st |-> s3, Ptr |-> [id |-> id, off |-> 0], pHost |-> pinned,
                mode |-> "AllocHostPtr"]
  ELSE LET s1 == Call(st, "hipMalloc", NewId(st), NullHost, size)
           id == NewId(s1)
           s2 == Acquire(s1, "device", size, NoDesc)
       IN IF Threw(s1) THEN [st |-> s1, Ptr |-> NullPtr, pHost |-> pHost, mode |-> "Classic"]
          ELSE [st |-> s2, Ptr |-> [id |-> id, off |-> 0], pHost |-> pHost,
                mode |-> IF ALLOC_COPY_HOST_POINTER \in flags THEN "CopyIn" ELSE "Classic"]

\* lines 154-164: the initial copy and the wait for it
InitialCopy(st, ptr, pHost, size) ==
  LET s1 == Call(st, "hipMemcpyHtoD", ptr.id, pHost, size)
  IN IF Threw(s1) THEN s1 ELSE Call(s1, "hipStreamSynchronize", 0, NullHost, 0)

Ret(st, result, out) == [st |-> st, result |-> result, out |-> out]

\* lines 101-178.  newFails: operator new throws std::bad_alloc.
BufferCreate(st, flags, size, pHostArg, newFails) ==
  IF UNKNOWN_BIT \in flags THEN Ret(st, INVALID_ENUMERATION, 0)
  ELSE IF flags \cap {USE_HOST_POINTER, ALLOC_COPY_HOST_POINTER} # {} /\ pHostArg = NullHost
  THEN Ret(st, INVALID_HOST_PTR, 0)
  ELSE IF size = 0 THEN Ret(st, INVALID_BUFFER_SIZE, 0)
  ELSE
    LET a == AllocateBuffer(Activate(st), flags, size, pHostArg)
        h == Len(st.mem) + 1
        s1 == [a.st EXCEPT !.mem = Append(@, NewBuffer(0, flags, a.mode, a.Ptr, a.pHost, size))]
        s2 == IF PerformInitialCopy(flags) THEN InitialCopy(s1, a.Ptr, a.pHost, size) ELSE s1
    IN IF Threw(a.st) THEN Ret(Deactivate(a.st), NATIVE_ERROR, 0)
       ELSE IF newFails THEN Ret(Deactivate(a.st), OUT_OF_RESOURCES, 0)
       ELSE IF Threw(s2) THEN Ret(Deactivate(s2), NATIVE_ERROR, h)
       ELSE Ret(Deactivate(s2), SUCCESS, h)

urMemBufferCreate(flags, size, pHostArg, fails, newFails) ==
  /\ ~aborted
  /\ LET r == BufferCreate(Start(fails), flags, size, pHostArg, newFails)
     IN /\ fails = FailedCalls(r.st)
        \* the checks of lines 105-113 return before line 175 writes *phBuffer
        /\ Commit(r.st, "urMemBufferCreate", 0, [flags |-> flags, size |-> size], r.result,
                  r.result \notin {INVALID_ENUMERATION, INVALID_HOST_PTR, INVALID_BUFFER_SIZE},
                  r.out)

(* --------------------------- urMemBufferPartition ---------------------- *)

\* line 216: size_t arithmetic, modulo the machine word
RegionFits(origin, size, parentSize) == ((origin + size) % WordMod) <= parentSize

\* lines 224-229: the views of the parent's pointers
WithOffset(ptr, origin) == [ptr EXCEPT !.off = @ + origin]

HostWithOffset(hostPtr, origin) ==
  IF hostPtr = NullHost THEN NullHost ELSE [hostPtr EXCEPT !.off = @ + origin]

\* (a guard that retains nothing, and one that releases nothing)
GuardRetainMutant(st, h) == st
GuardReleaseMutant(st, h) == st

\* ReleaseGuard, line 231: the temporary retain of the parent ...
GuardRetain(st, h) == [st EXCEPT !.mem[h].RefCount = incrementReferenceCount(@)]

\* ... which the guard releases again when the scope is left before dismiss()
GuardRelease(st, h) == MemRelease(st, h)

\* lines 231-249.  After dismiss() the guard's reference is the one the child
\* holds of its parent for its lifetime.  ctorFails: "context" (the activation
\* throws a result), "alloc" (operator new throws), "none".
ConstructSubBuffer(st, h, flags, origin, size, ctorFails) ==
  LET o == st.mem[h]
      child == NewBuffer(h, flags, "Classic", WithOffset(o.Ptr, origin),
                         HostWithOffset(o.HostPtr, origin), size)
      s1 == GuardRetain(st, h)
      \* line 235: Active lives in the try block
      sa == Activate(s1)
      s2 == Deactivate([sa EXCEPT !.mem = Append(@, child)])
  IN IF ctorFails = "context"
     THEN [st |-> GuardRelease(s1, h), result |-> NATIVE_ERROR, wrote |-> TRUE, out |-> 0]
     ELSE IF ctorFails = "alloc"
     THEN [st |-> GuardRelease(Deactivate(sa), h), result |-> OUT_OF_HOST_MEMORY,
           wrote |-> TRUE, out |-> 0]
     ELSE [st |-> s2, result |-> SUCCESS, wrote |-> TRUE, out |-> Len(s2.mem)]

Rejected(st, result) == [st |-> st, result |-> result, wrote |-> FALSE, out |-> 0]

\* line 190: no partition of a partition
ChainedPartitionMutant(o) == FALSE
ChainedPartition(o) == isSubBuffer(o)

\* lines 201-208: the child's access class against the parent's
AccessContradictsMutant(parentFlags, flags) ==
  WRITE_ONLY \in parentFlags /\ flags \cap {READ_WRITE, READ_ONLY} # {}
AccessContradicts(parentFlags, flags) ==
  \/ WRITE_ONLY \in parentFlags /\ flags \cap {READ_WRITE, READ_ONLY} # {}
  \/ READ_ONLY \in parentFlags /\ flags \cap {READ_WRITE, WRITE_ONLY} # {}

\* lines 183-250
BufferPartition(st, h, flagsArg, createType, origin, size, ctorFails) ==
  LET o == st.mem[h]
      flags == IF flagsArg = {} THEN {READ_WRITE} ELSE flagsArg
  IN IF UNKNOWN_BIT \in flagsArg THEN Rejected(st, INVALID_ENUMERATION)
     ELSE IF ~isBuffer(o) THEN Rejected(st, INVALID_MEM_OBJECT)
     ELSE IF ChainedPartition(o) THEN Rejected(st, INVALID_MEM_OBJECT)
     ELSE IF flags \cap {ALLOC_COPY_HOST_POINTER, ALLOC_HOST_POINTER, USE_HOST_POINTER} # {}
     THEN Rejected(st, INVALID_VALUE)
     ELSE IF AccessContradicts(o.MemFlags, flags) THEN Rejected(st, INVALID_VALUE)
     ELSE IF createType # "REGION" THEN Rejected(st, INVALID_ENUMERATION)
     ELSE IF size = 0 THEN Rejected(st, INVALID_BUFFER_SIZE)
     ELSE IF ~RegionFits(origin, size, o.Size) THEN Rejected(st, INVALID_BUFFER_SIZE)
     ELSE IF o.Ptr.id = 0 THEN Rejected(st, INVALID_MEM_OBJECT)
     ELSE ConstructSubBuffer(st, h, flags, origin, size, ctorFails)

urMemBufferPartition(h, flagsArg, createType, origin, size, ctorFails) ==
  /\ ~aborted
  /\ mem[h].live
  /\ LET r == BufferPartition(Start({}), h, flagsArg, createType, origin, size, ctorFails)
     IN /\ (ctorFails # "none") => (r.result \in {NATIVE_ERROR, OUT_OF_HOST_MEMORY})
        /\ Commit(r.st, "urMemBufferPartition", h,
                  [origin |-> origin, size |-> size, flags |-> flagsArg, type |-> createType],
                  r.result, r.wrote, r.out)

(* ------------------------------ the formats ---------------------------- *)

\* (HipFormatMutant: a translation that maps every channel type)
HipFormatMutant(channelType) == "HIP_AD_FORMAT_UNSIGNED_INT8"

\* lines 415-454: the channel type's native format, "none" when unmapped
HipFormat(channelType) ==
  CASE channelType \in {"UNORM_INT8", "UNSIGNED_INT8"} -> "HIP_AD_FORMAT_UNSIGNED_INT8"
    [] channelType = "SIGNED_INT8" -> "HIP_AD_FORMAT_SIGNED_INT8"
    [] channelType \in {"UNORM_INT16", "UNSIGNED_INT16"} -> "HIP_AD_FORMAT_UNSIGNED_INT16"
    [] channelType = "SIGNED_INT16" -> "HIP_AD_FORMAT_SIGNED_INT16"
    [] channelType = "HALF_FLOAT" -> "HIP_AD_FORMAT_HALF"
    [] channelType = "UNSIGNED_INT32" -> "HIP_AD_FORMAT_UNSIGNED_INT32"
    [] channelType = "SIGNED_INT32" -> "HIP_AD_FORMAT_SIGNED_INT32"
    [] channelType = "FLOAT" -> "HIP_AD_FORMAT_FLOAT"
    [] OTHER -> "none"

\* lines 415-454: PixelTypeSizeBytes
PixelTypeSizeBytes(channelType) ==
  CASE channelType \in {"UNORM_INT8", "UNSIGNED_INT8", "SIGNED_INT8"} -> 1
    [] channelType \in {"UNORM_INT16", "UNSIGNED_INT16", "SIGNED_INT16", "HALF_FLOAT"} -> 2
    [] OTHER -> 4

\* lines 18-34; 0 stands for the die of the default case
GetHipFormatPixelSize(format) ==
  CASE format \in {"HIP_AD_FORMAT_UNSIGNED_INT8", "HIP_AD_FORMAT_SIGNED_INT8"} -> 1
    [] format \in {"HIP_AD_FORMAT_UNSIGNED_INT16", "HIP_AD_FORMAT_SIGNED_INT16",
                   "HIP_AD_FORMAT_HALF"} -> 2
    [] format \in {"HIP_AD_FORMAT_UNSIGNED_INT32", "HIP_AD_FORMAT_SIGNED_INT32",
                   "HIP_AD_FORMAT_FLOAT"} -> 4
    [] OTHER -> 0

\* (hip2urFormatMutant: a reverse translation that tells no signedness)
hip2urFormatMutant(format) ==
  CASE format \in {"HIP_AD_FORMAT_UNSIGNED_INT8", "HIP_AD_FORMAT_SIGNED_INT8"} ->
         "UNSIGNED_INT8"
    [] format \in {"HIP_AD_FORMAT_UNSIGNED_INT16", "HIP_AD_FORMAT_SIGNED_INT16"} ->
         "UNSIGNED_INT16"
    [] format \in {"HIP_AD_FORMAT_UNSIGNED_INT32", "HIP_AD_FORMAT_SIGNED_INT32"} ->
         "UNSIGNED_INT32"
    [] format = "HIP_AD_FORMAT_HALF" -> "HALF_FLOAT"
    [] format = "HIP_AD_FORMAT_FLOAT" -> "FLOAT"
    [] OTHER -> "none"

\* lines 543-566
hip2urFormat(format) ==
  CASE format = "HIP_AD_FORMAT_UNSIGNED_INT8" -> "UNSIGNED_INT8"
    [] format = "HIP_AD_FORMAT_UNSIGNED_INT16" -> "UNSIGNED_INT16"
    [] format = "HIP_AD_FORMAT_UNSIGNED_INT32" -> "UNSIGNED_INT32"
    [] format = "HIP_AD_FORMAT_SIGNED_INT8" -> "SIGNED_INT8"
    [] format = "HIP_AD_FORMAT_SIGNED_INT16" -> "SIGNED_INT16"
    [] format = "HIP_AD_FORMAT_SIGNED_INT32" -> "SIGNED_INT32"
    [] format = "HIP_AD_FORMAT_HALF" -> "HALF_FLOAT"
    [] format = "HIP_AD_FORMAT_FLOAT" -> "FLOAT"
    [] OTHER -> "none"

\* lines 568-585
hipFormatToElementSize(format) ==
  CASE format \in {"HIP_AD_FORMAT_UNSIGNED_INT8", "HIP_AD_FORMAT_SIGNED_INT8"} -> 1
    [] format \in {"HIP_AD_FORMAT_UNSIGNED_INT16", "HIP_AD_FORMAT_SIGNED_INT16",
                   "HIP_AD_FORMAT_HALF"} -> 2
    [] format \in {"HIP_AD_FORMAT_UNSIGNED_INT32", "HIP_AD_FORMAT_SIGNED_INT32",
                   "HIP_AD_FORMAT_FLOAT"} -> 4
    [] OTHER -> 0

(* ----------------------------- urMemImageCreate ------------------------ *)

DimensionalTypes == {"IMAGE1D", "IMAGE2D", "IMAGE3D"}

\* ur_mem_type_t values up to UR_MEM_TYPE_IMAGE1D_BUFFER (line 374)
AcceptedTypes ==
  DimensionalTypes \cup {"BUFFER", "IMAGE2D_ARRAY", "IMAGE1D_ARRAY", "IMAGE1D_BUFFER"}

\* lines 397-410.  Height and Depth are assigned for the 1D, 2D and 3D types
\* only: for another type they hold what the stack held (garbage).
ArrayDescriptor(channelType, desc, garbage) ==
  [Width |-> desc.width,
   Height |-> CASE desc.type = "IMAGE1D" -> 0
                [] desc.type \in {"IMAGE2D", "IMAGE3D"} -> desc.height
                [] OTHER -> garbage[1],
   Depth |-> CASE desc.type \in {"IMAGE1D", "IMAGE2D"} -> 0
               [] desc.type = "IMAGE3D" -> desc.depth
               [] OTHER -> garbage[2],
   Format |-> HipFormat(channelType),
   NumChannels |-> 4]

\* lines 457-460
PixelSizeBytes(channelType) == PixelTypeSizeBytes(channelType) * 4

ImageSizeBytes(channelType, desc) ==
  PixelSizeBytes(channelType) * desc.width * desc.height * desc.depth

\* lines 368-370
ImagePerformInitialCopy(flags) ==
  ALLOC_COPY_HOST_POINTER \in flags \/ USE_HOST_POINTER \in flags

\* lines 468-494: the copy routine of the image's dimensionality
ImageCopy(st, array, channelType, desc, pHost) ==
  CASE desc.type = "IMAGE1D" ->
         Call(st, "hipMemcpyHtoA", array, pHost, ImageSizeBytes(channelType, desc))
    [] desc.type = "IMAGE2D" ->
         Call(st, "hipMemcpyParam2D", array, pHost, PixelSizeBytes(channelType) * desc.width)
    [] desc.type = "IMAGE3D" ->
         Call(st, "hipDrvMemcpy3D", array, pHost, PixelSizeBytes(channelType) * desc.width)
    [] OTHER -> st

\* lines 518-524: the handlers free the array; a failure of that free throws
\* out of the handler
ImageCatch(st, array, result) ==
  LET s == FreeCall(st, "hipFreeArray", array)
  IN IF Threw(s) THEN [st |-> Deactivate(s), result |-> THROWN, wrote |-> FALSE, out |-> 0]
     ELSE [st |-> Deactivate(s), result |-> result, wrote |-> FALSE, out |-> 0]

\* lines 462-526
BuildImage(st, flags, channelType, desc, pHost, newFails, garbage) ==
  LET s1 == Call(Activate(st), "hipArray3DCreate", NewId(st), NullHost, 0)
      array == NewId(s1)
      s2 == Acquire(s1, "array", 0, ArrayDescriptor(channelType, desc, garbage))
      s3 == IF ImagePerformInitialCopy(flags)
            THEN ImageCopy(s2, array, channelType, desc, pHost) ELSE s2
      s4 == Call(s3, "hipCreateSurfaceObject", NewId(s3), NullHost, 0)
      surf == NewId(s4)
      s5 == Acquire(s4, "surface", 0, NoDesc)
      s6 == Deactivate([s5 EXCEPT !.mem = Append(@, NewSurface(array, surf, flags, desc.type,
                                                               pHost))])
  IN IF Threw(s1) THEN [st |-> Deactivate(s1), result |-> THROWN, wrote |-> FALSE, out |-> 0]
     ELSE IF Threw(s3) THEN ImageCatch(s3, array, NATIVE_ERROR)
     ELSE IF Threw(s4) THEN ImageCatch(s4, array, NATIVE_ERROR)
     ELSE IF newFails THEN ImageCatch(s5, array, UNKNOWN)
     ELSE [st |-> s6, result |-> SUCCESS, wrote |-> TRUE, out |-> Len(s6.mem)]

\* lines 355-526
ImageCreate(st, flags, format, desc, pHost, newFails, garbage) ==
  IF UNKNOWN_BIT \in flags THEN Rejected(st, INVALID_ENUMERATION)
  ELSE IF flags \cap {ALLOC_COPY_HOST_POINTER, USE_HOST_POINTER} # {} /\ pHost = NullHost
  THEN Rejected(st, INVALID_HOST_PTR)
  ELSE IF desc.stype # "IMAGE_DESC" THEN Rejected(st, INVALID_IMAGE_FORMAT_DESCRIPTOR)
  ELSE IF desc.type \notin AcceptedTypes THEN Rejected(st, INVALID_IMAGE_FORMAT_DESCRIPTOR)
  ELSE IF desc.numMipLevel # 0 THEN Rejected(st, INVALID_IMAGE_FORMAT_DESCRIPTOR)
  ELSE IF desc.numSamples # 0 THEN Rejected(st, INVALID_IMAGE_FORMAT_DESCRIPTOR)
  ELSE IF pHost = NullHost /\ desc.rowPitch # 0
  THEN Rejected(st, INVALID_IMAGE_FORMAT_DESCRIPTOR)
  ELSE IF pHost = NullHost /\ desc.slicePitch # 0
  THEN Rejected(st, INVALID_IMAGE_FORMAT_DESCRIPTOR)
  ELSE IF format.channelOrder # "RGBA" THEN Rejected(st, UNSUPPORTED_ENUMERATION)
  ELSE IF HipFormat(format.channelType) = "none"
  THEN Rejected(st, INVALID_IMAGE_FORMAT_DESCRIPTOR)
  ELSE BuildImage(st, flags, format.channelType, desc, pHost, newFails, garbage)

urMemImageCreate(flags, format, desc, pHost, fails, newFails, garbage) ==
  /\ ~aborted
  /\ (desc.type \in DimensionalTypes) => (garbage = <<0, 0>>)
  /\ LET r == ImageCreate(Start(fails), flags, format, desc, pHost, newFails, garbage)
     IN /\ fails = FailedCalls(r.st)
        /\ newFails => (r.result \in {UNKNOWN, THROWN})
        /\ Commit(r.st, "urMemImageCreate", 0,
                  [flags |-> flags, format |-> format, desc |-> desc, pHost |-> pHost],
                  r.result, r.wrote, r.out)

(* -------------------------------- urMemGetInfo ------------------------- *)

\* (Max1Mutant: a dimension of zero counted as zero)
Max1Mutant(n) == n
Max1(n) == IF n # 0 THEN n ELSE 1

\* lines 275-286
SurfaceSizeBytes(d) ==
  GetHipFormatPixelSize(d.Format) * d.NumChannels * Max1(d.Width) * Max1(d.Height)
    * Max1(d.Depth)

Answer(st, result, wrote, out) == [st |-> st, result |-> result, wrote |-> wrote, out |-> out]

\* lines 252-307
MemGetInfo(st, h, infoType) ==
  LET o == st.mem[h]
  IN IF infoType \notin {"SIZE", "CONTEXT"} THEN Answer(st, INVALID_ENUMERATION, FALSE, 0)
     ELSE IF infoType = "CONTEXT" THEN Answer(Deactivate(Activate(st)), SUCCESS, TRUE, "Context")
     ELSE IF isBuffer(o)
     THEN LET s == Call(Activate(st), "hipMemGetAddressRange", o.Ptr.id, NullHost, 0)
          IN IF Threw(s) THEN Answer(Deactivate(s), NATIVE_ERROR, FALSE, 0)
             ELSE Answer(Deactivate(s), SUCCESS, TRUE, s.native[o.Ptr.id].size)
     ELSE LET s == Call(Activate(st), "hipArray3DGetDescriptor", o.Array, NullHost, 0)
          IN IF Threw(s) THEN Answer(Deactivate(s), NATIVE_ERROR, FALSE, 0)
             ELSE Answer(Deactivate(s), SUCCESS, TRUE, SurfaceSizeBytes(s.native[o.Array].desc))

urMemGetInfo(h, infoType, fails) ==
  /\ ~aborted
  /\ mem[h].live
  /\ LET r == MemGetInfo(Start(fails), h, infoType)
     IN /\ fails = FailedCalls(r.st)
        /\ Commit(r.st, "urMemGetInfo", h, infoType, r.result, r.wrote, r.out)

(* ------------------------------ urMemImageGetInfo ---------------------- *)

\* lines 587-605
ImageInfoValue(st, info, propName) ==
  CASE propName = "FORMAT" ->
         Answer(st, SUCCESS, TRUE, [order |-> "RGBA", type |-> hip2urFormat(info.Format)])
    [] propName = "WIDTH" -> Answer(st, SUCCESS, TRUE, info.Width)
    [] propName = "HEIGHT" -> Answer(st, SUCCESS, TRUE, info.Height)
    [] propName = "DEPTH" -> Answer(st, SUCCESS, TRUE, info.Depth)
    [] propName = "ELEMENT_SIZE" ->
         Answer(st, SUCCESS, TRUE, hipFormatToElementSize(info.Format))
    [] propName \in {"ROW_PITCH", "SLICE_PITCH"} ->
         Answer(st, UNSUPPORTED_ENUMERATION, FALSE, 0)
    [] OTHER -> Answer(st, INVALID_ENUMERATION, FALSE, 0)

\* lines 528-613
MemImageGetInfo(st, h, propName) ==
  LET o == st.mem[h]
      s == Call(Activate(st), "hipArray3DGetDescriptor", o.Array, NullHost, 0)
  IN IF ~isImage(o) THEN Answer(st, INVALID_MEM_OBJECT, FALSE, 0)
     ELSE IF Threw(s) THEN Answer(Deactivate(s), NATIVE_ERROR, FALSE, 0)
     ELSE ImageInfoValue(Deactivate(s), s.native[o.Array].desc, propName)

urMemImageGetInfo(h, propName, fails) ==
  /\ ~aborted
  /\ mem[h].live
  /\ LET r == MemImageGetInfo(Start(fails), h, propName)
     IN /\ fails = FailedCalls(r.st)
        /\ Commit(r.st, "urMemImageGetInfo", h, propName, r.result, r.wrote, r.out)

(* ------------------------------ the inputs ----------------------------- *)

HostPolicies == SUBSET {USE_HOST_POINTER, ALLOC_HOST_POINTER, ALLOC_COPY_HOST_POINTER}

AccessClasses == {{READ_WRITE}, {WRITE_ONLY}, {READ_ONLY}}

HostInputs == {NullHost, CallerHost}

\* Every host-pointer policy, with and without a host pointer.
LifeBufferInputs == HostPolicies \X {BufSize} \X HostInputs

\* One buffer of every access class, one with initial data, and one request for
\* every rejection of urMemBufferCreate.
BufferInputs ==
  { <<{}, BufSize, NullHost>>, <<{WRITE_ONLY}, BufSize, NullHost>>,
    <<{READ_ONLY}, BufSize, NullHost>>, <<{ALLOC_COPY_HOST_POINTER}, BufSize, CallerHost>>,
    <<{ALLOC_COPY_HOST_POINTER}, BufSize, NullHost>>, <<{}, 0, NullHost>>,
    <<{UNKNOWN_BIT}, BufSize, NullHost>> }

PartitionFlags ==
  {{}, {READ_WRITE}, {WRITE_ONLY}, {READ_ONLY}, {ALLOC_HOST_POINTER}, {UNKNOWN_BIT}}

\* {origin, size}: empty, the whole parent, one byte past its end, and an
\* origin at the top of the machine word
RegionInputs == {<<0, 0>>, <<0, BufSize>>, <<BufSize - 1, 2>>, <<WordMod - 1, 2>>}

CtorFailInputs == {"none", "context", "alloc"}

\* The positions of the native calls of one operation that fail: none, any
\* one, or one and the call that follows it.
FailInputs == {{}} \cup {{i} : i \in 1..4} \cup {{i, i + 1} : i \in 2..3}

RGBA8 == [channelOrder |-> "RGBA", channelType |-> "UNSIGNED_INT8"]

Desc2D ==
  [stype |-> "IMAGE_DESC", type |-> "IMAGE2D", width |-> 2, height |-> 2, depth |-> 1,
   numMipLevel |-> 0, numSamples |-> 0, rowPitch |-> 0, slicePitch |-> 0]

Image(flags, format, desc, pHost) ==
  [flags |-> flags, format |-> format, desc |-> desc, pHost |-> pHost]

AcceptedImageInputs ==
  { Image({}, RGBA8, Desc2D, NullHost),
    Image({ALLOC_COPY_HOST_POINTER}, RGBA8, Desc2D, CallerHost) }

\* One request for every rejection of urMemImageCreate.
RejectedImageInputs ==
  { Image({UNKNOWN_BIT}, RGBA8, Desc2D, NullHost),
    Image({USE_HOST_POINTER}, RGBA8, Desc2D, NullHost),
    Image({}, RGBA8, [Desc2D EXCEPT !.stype = "OTHER"], NullHost),
    Image({}, RGBA8, [Desc2D EXCEPT !.type = "OUT_OF_RANGE"], NullHost),
    Image({}, RGBA8, [Desc2D EXCEPT !.numMipLevel = 1], NullHost),
    Image({}, RGBA8, [Desc2D EXCEPT !.numSamples = 1], NullHost),
    Image({}, RGBA8, [Desc2D EXCEPT !.rowPitch = 8], NullHost),
    Image({}, RGBA8, [Desc2D EXCEPT !.slicePitch = 16], NullHost),
    Image({}, [RGBA8 EXCEPT !.channelOrder = "BGRA"], Desc2D, NullHost),
    Image({}, [RGBA8 EXCEPT !.channelType = "SNORM_INT8"], Desc2D, NullHost) }

ImageInputs == AcceptedImageInputs \cup RejectedImageInputs

MemInfoInputs == {"SIZE", "CONTEXT", "REFERENCE_COUNT"}

ImageInfoInputs ==
  {"FORMAT", "WIDTH", "HEIGHT", "DEPTH", "ELEMENT_SIZE", "ROW_PITCH", "SLICE_PITCH", "OTHER"}

(* ------------------ Spec: every operation, one caller ------------------ *)

NoOp ==
  [op |-> "none", h |-> 0, arg |-> "", result |-> SUCCESS, wrote |-> FALSE, out |-> 0,
   depth |-> 0]

Init ==
  /\ mem = <<>>
  /\ native = <<>>
  /\ calls = <<>>
  /\ last = NoOp
  /\ aborted = FALSE
  /\ hist = <<>>
  /\ pc = <<>>
  /\ tres = <<>>
  /\ owned = <<>>
  /\ uaf = FALSE

Release ==
  /\ \E h \in Handles, f \in FailInputs : urMemRelease(h, f)
  /\ UNCHANGED <<hist, threadVars>>

Retain ==
  /\ \E h \in Handles : mem[h].RefCount < MaxRef /\ urMemRetain(h)
  /\ UNCHANGED <<hist, threadVars>>

BufferCreateOp ==
  /\ Len(mem) < MaxObj /\ Len(native) < MaxRes
  /\ \E b \in BufferInputs, f \in FailInputs, nf \in BOOLEAN :
       urMemBufferCreate(b[1], b[2], b[3], f, nf)
  /\ UNCHANGED <<hist, threadVars>>

PartitionOp ==
  /\ Len(mem) < MaxObj
  /\ \E h \in Handles, fl \in PartitionFlags, ct \in {"REGION", "OTHER"},
        r \in RegionInputs, cf \in CtorFailInputs :
       urMemBufferPartition(h, fl, ct, r[1], r[2], cf)
  /\ UNCHANGED <<hist, threadVars>>

ImageCreateOp ==
  /\ Len(mem) < MaxObj /\ Len(native) + 2 <= MaxRes
  /\ \E i \in ImageInputs, f \in FailInputs, nf \in BOOLEAN :
       urMemImageCreate(i.flags, i.format, i.desc, i.pHost, f, nf, <<0, 0>>)
  /\ UNCHANGED <<hist, threadVars>>

GetInfoOp ==
  /\ \E h \in Handles, t \in MemInfoInputs, f \in {{}, {1}} : urMemGetInfo(h, t, f)
  /\ UNCHANGED <<hist, threadVars>>

ImageGetInfoOp ==
  /\ \E h \in Handles, p \in ImageInfoInputs, f \in {{}, {1}} : urMemImageGetInfo(h, p, f)
  /\ UNCHANGED <<hist, threadVars>>

Next ==
  \/ Release
  \/ Retain
  \/ BufferCreateOp
  \/ PartitionOp
  \/ ImageCreateOp
  \/ GetInfoOp
  \/ ImageGetInfoOp

Spec == Init /\ [][Next]_vars

(* ------- RefSpec: the reference counts of buffers and sub-buffers ------- *)

RefBufferCreate ==
  /\ Len(mem) < MaxObj /\ Len(native) < MaxRes
  /\ \E nf \in BOOLEAN, f \in {{}, {1}} : urMemBufferCreate({}, BufSize, NullHost, f, nf)
  /\ UNCHANGED <<hist, threadVars>>

RefImageCreate ==
  /\ Len(mem) < MaxObj /\ Len(native) + 2 <= MaxRes
  /\ \E i \in AcceptedImageInputs :
       urMemImageCreate(i.flags, i.format, i.desc, i.pHost, {}, FALSE, <<0, 0>>)
  /\ UNCHANGED <<hist, threadVars>>

RefPartition ==
  /\ Len(mem) < MaxObj
  /\ \E h \in Handles, r \in {<<0, BufSize>>, <<BufSize - 1, 2>>}, cf \in CtorFailInputs :
       urMemBufferPartition(h, {}, "REGION", r[1], r[2], cf)
  /\ UNCHANGED <<hist, threadVars>>

RefNext ==
  \/ Release
  \/ Retain
  \/ RefBufferCreate
  \/ RefImageCreate
  \/ RefPartition

RefSpec == Init /\ [][RefNext]_vars

(* ---- LifeSpec: objects created, retained and released by one caller ---- *)

\* The caller creates its next object once it has released the previous one.
NoneLive == \A h \in Handles : ~mem[h].live

\* What the caller did with an object: the result of its creation, the native
\* resources the creation acquired, the successful retains, the releases, and
\* whether every retain came before the first release.
FreshHist(result, acquired) ==
  [result |-> result, acquired |-> acquired, rets |-> 0, rels |-> 0, ordered |-> TRUE]

Created == IF Len(mem') > Len(mem)
           THEN Append(hist, FreshHist(last'.result, (Len(native) + 1)..Len(native')))
           ELSE hist

LifeBufferCreate ==
  /\ NoneLive /\ Len(mem) < MaxLifeObj /\ Len(native) < MaxLifeRes
  /\ \E b \in LifeBufferInputs, f \in FailInputs, nf \in BOOLEAN :
       urMemBufferCreate(b[1], b[2], b[3], f, nf)
  /\ hist' = Created
  /\ UNCHANGED threadVars

LifeImageCreate ==
  /\ NoneLive /\ Len(mem) < MaxLifeObj /\ Len(native) + 2 <= MaxLifeRes
  /\ \E i \in AcceptedImageInputs, f \in FailInputs, nf \in BOOLEAN :
       urMemImageCreate(i.flags, i.format, i.desc, i.pHost, f, nf, <<0, 0>>)
  /\ hist' = Created
  /\ UNCHANGED threadVars

LifeRetain ==
  /\ \E h \in Handles :
       /\ mem[h].RefCount < MaxRef /\ InitialReferenceCount + hist[h].rets < MaxRef
       /\ urMemRetain(h)
       /\ hist' = [hist EXCEPT ![h].rets = IF last'.result = SUCCESS THEN @ + 1 ELSE @,
                               ![h].ordered = @ /\ hist[h].rels = 0]
  /\ UNCHANGED threadVars

LifeRelease ==
  /\ \E h \in Handles, f \in {{}, {1}, {2}} :
       /\ urMemRelease(h, f)
       /\ hist' = [hist EXCEPT ![h].rels = @ + 1]
  /\ UNCHANGED threadVars

LifeNext ==
  \/ LifeBufferCreate
  \/ LifeImageCreate
  \/ LifeRetain
  \/ LifeRelease

LifeSpec == Init /\ [][LifeNext]_vars

(* --- ConcSpec: threads retain and release one buffer, step by step ----- *)

Threads == 1..NThreads

\* the handle the threads share
Obj == 1

NewBufferState ==
  BufferCreate([mem |-> <<>>, native |-> <<>>, calls |-> <<>>, fails |-> {}, died |-> FALSE,
                depth |-> 0],
               {}, BufSize, NullHost, FALSE).st

\* Thread 1 has created the buffer and owns its one reference; the other
\* threads have been handed the handle.
ConcInit ==
  /\ mem = NewBufferState.mem
  /\ native = NewBufferState.native
  /\ calls = <<>>
  /\ last = NoOp
  /\ aborted = FALSE
  /\ hist = <<>>
  /\ pc = [t \in Threads |-> "idle"]
  /\ tres = [t \in Threads |-> "none"]
  /\ owned = [t \in Threads |-> IF t = 1 THEN 1 ELSE 0]
  /\ uaf = FALSE

Step(op, t, result, count) ==
  [op |-> op, h |-> t, arg |-> "", result |-> result, wrote |-> FALSE, out |-> count]

\* What a read of the reference count gives: the count, or, once the object
\* has been deleted, whatever its freed storage holds.
CountsRead == IF mem[Obj].live THEN {mem[Obj].RefCount} ELSE 0..MaxRef

\* line 616: thread t reads the count and compares it
RetainCheck(t) ==
  /\ pc[t] = "idle"
  /\ mem[Obj].live /\ mem[Obj].RefCount < MaxRef
  /\ IF RetainAllowed(mem[Obj].RefCount)
     THEN /\ pc' = [pc EXCEPT ![t] = "increment"]
          /\ tres' = tres
          /\ last' = Step("RetainCheck", t, "pending", mem[Obj].RefCount)
     ELSE /\ pc' = pc
          /\ tres' = [tres EXCEPT ![t] = INVALID_MEM_OBJECT]
          /\ last' = Step("RetainCheck", t, INVALID_MEM_OBJECT, mem[Obj].RefCount)
  /\ UNCHANGED <<mem, native, calls, aborted, hist, owned, uaf>>

\* lines 617-618: the increment, an atomic read-modify-write, and the return
RetainIncrement(t) ==
  /\ pc[t] = "increment"
  /\ \E c \in CountsRead :
       /\ mem' = [mem EXCEPT ![Obj].RefCount = incrementReferenceCount(c)]
       /\ last' = Step("RetainIncrement", t, SUCCESS, c)
  /\ uaf' = (uaf \/ ~mem[Obj].live)
  /\ pc' = [pc EXCEPT ![t] = "idle"]
  /\ tres' = [tres EXCEPT ![t] = SUCCESS]
  /\ owned' = [owned EXCEPT ![t] = @ + 1]
  /\ UNCHANGED <<native, calls, aborted, hist>>

\* line 47: thread t gives up a reference it owns; the decrement is an atomic
\* read-modify-write
ReleaseDecrement(t) ==
  /\ pc[t] = "idle"
  /\ owned[t] > 0
  /\ owned' = [owned EXCEPT ![t] = @ - 1]
  /\ \E c \in CountsRead :
       LET cnt == decrementReferenceCount(c)
       IN /\ mem' = [mem EXCEPT ![Obj].RefCount = cnt]
          /\ IF OtherReferences(cnt)
             THEN /\ pc' = pc
                  /\ tres' = [tres EXCEPT ![t] = SUCCESS]
                  /\ last' = Step("ReleaseDecrement", t, SUCCESS, c)
             ELSE /\ pc' = [pc EXCEPT ![t] = "teardown"]
                  /\ tres' = tres
                  /\ last' = Step("ReleaseDecrement", t, "pending", c)
  /\ uaf' = (uaf \/ ~mem[Obj].live)
  /\ UNCHANGED <<native, calls, aborted, hist>>

\* lines 52-95: the thread that saw no other reference frees and deletes
ReleaseTeardown(t) ==
  /\ pc[t] = "teardown"
  /\ LET s == DeleteObject(Deactivate(NativeTeardown(Activate(Start({})), Obj)), Obj)
     IN mem' = s.mem /\ native' = s.native
  /\ uaf' = (uaf \/ ~mem[Obj].live)
  /\ pc' = [pc EXCEPT ![t] = "idle"]
  /\ tres' = [tres EXCEPT ![t] = SUCCESS]
  /\ last' = Step("ReleaseTeardown", t, SUCCESS, mem[Obj].RefCount)
  /\ UNCHANGED <<calls, aborted, hist, owned>>

ConcNext ==
  \/ \E t \in Threads : RetainCheck(t)
  \/ \E t \in Threads : RetainIncrement(t)
  \/ \E t \in Threads : ReleaseDecrement(t)
  \/ \E t \in Threads : ReleaseTeardown(t)

ConcSpec == ConcInit /\ [][ConcNext]_vars

(* ------- PartSpec: buffers of every access class and their views ------- *)

PartBufferInputs == {{}, {WRITE_ONLY}, {READ_ONLY}}

\* {flags, type, origin, size}: every flag set on the whole parent, every
\* region and another creation type with the default flags
PartitionInputs ==
  {<<fl, "REGION", 0, BufSize>> :
     fl \in PartitionFlags \cup {{READ_ONLY, UNKNOWN_BIT}, {READ_WRITE, WRITE_ONLY}}}
  \cup {<<{}, "REGION", r[1], r[2]>> : r \in {<<0, 0>>, <<BufSize - 1, 2>>, <<1, 1>>}}
  \cup {<<{}, "OTHER", 0, BufSize>>, <<{READ_ONLY}, "REGION", 0, 0>>}

PartBufferCreate ==
  /\ Len(mem) < MaxPartObj /\ Len(native) < MaxPartRes
  /\ \E fl \in PartBufferInputs : urMemBufferCreate(fl, BufSize, NullHost, {}, FALSE)
  /\ UNCHANGED <<hist, threadVars>>

PartPartition ==
  /\ \E h \in Handles, i \in PartitionInputs, cf \in CtorFailInputs :
       urMemBufferPartition(h, i[1], i[2], i[3], i[4], cf)
  /\ Len(mem') <= MaxPartObj
  /\ UNCHANGED <<hist, threadVars>>

PartRelease ==
  /\ \E h \in Handles, f \in {{}, {1}} : urMemRelease(h, f)
  /\ UNCHANGED <<hist, threadVars>>

PartNext ==
  \/ PartBufferCreate
  \/ PartPartition
  \/ PartRelease

PartSpec == Init /\ [][PartNext]_vars

(* ---------- ImgSpec: images of every type, format and host policy ------ *)

ImageDesc(type, w, h, d) ==
  [stype |-> "IMAGE_DESC", type |-> type, width |-> w, height |-> h, depth |-> d,
   numMipLevel |-> 0, numSamples |-> 0, rowPitch |-> 0, slicePitch |-> 0]

\* one descriptor for each dimensionality, and one of an accepted type that
\* is none of the three
ImgDescInputs ==
  {ImageDesc("IMAGE1D", 3, 1, 1), ImageDesc("IMAGE2D", 2, 3, 1), ImageDesc("IMAGE3D", 2, 3, 2),
   ImageDesc("IMAGE1D_ARRAY", 2, 1, 1)}

\* channel types of element size 1, 2 and 4
ImgChannelInputs == {"UNORM_INT8", "HALF_FLOAT", "FLOAT"}

\* {flags, host pointer}
ImgHostInputs ==
  {<<{}, NullHost>>, <<{ALLOC_COPY_HOST_POINTER}, CallerHost>>,
   <<{USE_HOST_POINTER}, CallerHost>>}

\* requests that pass every check
ImgAccepted ==
  {Image(f[1], [channelOrder |-> "RGBA", channelType |-> c], d, f[2]) :
     f \in ImgHostInputs, c \in ImgChannelInputs, d \in ImgDescInputs}
  \cup {Image({}, RGBA8, [Desc2D EXCEPT !.rowPitch = 8, !.slicePitch = 16], CallerHost)}

\* requests with one defect, and with two
ImgRejected ==
  RejectedImageInputs
  \cup {Image({UNKNOWN_BIT}, RGBA8, [Desc2D EXCEPT !.numMipLevel = 1], NullHost),
        Image({}, [RGBA8 EXCEPT !.channelOrder = "BGRA"], [Desc2D EXCEPT !.numSamples = 1],
              NullHost),
        Image({}, [channelOrder |-> "BGRA", channelType |-> "SNORM_INT8"], Desc2D, NullHost),
        Image({ALLOC_COPY_HOST_POINTER}, RGBA8, [Desc2D EXCEPT !.numMipLevel = 1], NullHost)}

\* what the stack holds where Height and Depth are left unassigned
GarbageInputs == {<<0, 0>>, <<5, 7>>}

ImgCreate ==
  /\ NoneLive /\ Len(mem) < MaxImgObj /\ Len(native) + 2 <= MaxImgRes
  /\ \E i \in ImgAccepted \cup ImgRejected, f \in FailInputs, nf \in BOOLEAN,
        g \in GarbageInputs :
       urMemImageCreate(i.flags, i.format, i.desc, i.pHost, f, nf, g)
  \* the request an image was created with
  /\ hist' = IF Len(mem') > Len(mem) THEN Append(hist, [request |-> last'.arg]) ELSE hist
  /\ UNCHANGED threadVars

ImgRelease ==
  /\ \E h \in Handles, f \in {{}, {1}, {2}} : urMemRelease(h, f)
  /\ UNCHANGED <<hist, threadVars>>

ImgGetInfo ==
  /\ \E h \in Handles, t \in MemInfoInputs, f \in {{}, {1}} : urMemGetInfo(h, t, f)
  /\ UNCHANGED <<hist, threadVars>>

ImgImageGetInfo ==
  /\ \E h \in Handles, p \in ImageInfoInputs, f \in {{}, {1}} : urMemImageGetInfo(h, p, f)
  /\ UNCHANGED <<hist, threadVars>>

ImgNext ==
  \/ ImgCreate
  \/ ImgRelease
  \/ ImgGetInfo
  \/ ImgImageGetInfo

ImgSpec == Init /\ [][ImgNext]_vars

(* ------ CtxSpec: every operation, with its native calls failing -------- *)

\* {flags, size, host pointer}: device and host-pinned allocation, with and
\* without the initial copy, and a request that is rejected
CtxBufferInputs ==
  {<<{}, BufSize, NullHost>>, <<{ALLOC_HOST_POINTER}, BufSize, NullHost>>,
   <<{ALLOC_COPY_HOST_POINTER}, BufSize, CallerHost>>, <<{}, 0, NullHost>>}

\* {flags, type, origin, size}: a child, and a region that is rejected
CtxPartitionInputs == {<<{}, "REGION", 0, BufSize>>, <<{}, "REGION", 0, 0>>}

\* an image without and with initial data, and a request that is rejected
CtxImageInputs ==
  {Image({}, RGBA8, Desc2D, NullHost),
   Image({ALLOC_COPY_HOST_POINTER}, RGBA8, Desc2D, CallerHost),
   Image({UNKNOWN_BIT}, RGBA8, Desc2D, NullHost)}

\* a query that is answered, one that is unsupported, one that is unknown
CtxImageInfoInputs == {"WIDTH", "ROW_PITCH", "OTHER"}

CtxBufferCreate ==
  /\ NoneLive /\ Len(mem) < MaxCtxObj /\ Len(native) < MaxCtxRes
  /\ \E b \in CtxBufferInputs, f \in {{}, {1}, {2}}, nf \in BOOLEAN :
       urMemBufferCreate(b[1], b[2], b[3], f, nf)
  /\ UNCHANGED <<hist, threadVars>>

CtxPartition ==
  /\ Len(mem) < MaxCtxObj
  /\ \E h \in Handles, i \in CtxPartitionInputs, cf \in CtorFailInputs :
       urMemBufferPartition(h, i[1], i[2], i[3], i[4], cf)
  /\ UNCHANGED <<hist, threadVars>>

CtxImageCreate ==
  /\ NoneLive /\ Len(mem) < MaxCtxObj /\ Len(native) + 2 <= MaxCtxRes
  /\ \E i \in CtxImageInputs, f \in FailInputs, nf \in BOOLEAN :
       urMemImageCreate(i.flags, i.format, i.desc, i.pHost, f, nf, <<0, 0>>)
  /\ UNCHANGED <<hist, threadVars>>

CtxRetain ==
  /\ \E h \in Handles : mem[h].RefCount < MaxRef /\ urMemRetain(h)
  /\ UNCHANGED <<hist, threadVars>>

CtxRelease ==
  /\ \E h \in Handles, f \in {{}, {1}, {2}} : urMemRelease(h, f)
  /\ UNCHANGED <<hist, threadVars>>

CtxGetInfo ==
  /\ \E h \in Handles, t \in MemInfoInputs, f \in {{}, {1}} : urMemGetInfo(h, t, f)
  /\ UNCHANGED <<hist, threadVars>>

CtxImageGetInfo ==
  /\ \E h \in Handles, p \in CtxImageInfoInputs, f \in {{}, {1}} :
       urMemImageGetInfo(h, p, f)
  /\ UNCHANGED <<hist, threadVars>>

CtxNext ==
  \/ CtxBufferCreate
  \/ CtxPartition
  \/ CtxImageCreate
  \/ CtxRetain
  \/ CtxRelease
  \/ CtxGetInfo
  \/ CtxImageGetInfo

CtxSpec == Init /\ [][CtxNext]_vars

(* ------- FmtSpec: an image of every channel type, and its queries ------ *)

\* the ten channel types of the switch of lines 415-450, and two it does not
\* name
FmtChannelInputs ==
  {"UNORM_INT8", "UNSIGNED_INT8", "SIGNED_INT8", "UNORM_INT16", "UNSIGNED_INT16",
   "SIGNED_INT16", "HALF_FLOAT", "UNSIGNED_INT32", "SIGNED_INT32", "FLOAT",
   "SNORM_INT8", "UNORM_SHORT_565"}

FmtImageInputs ==
  {Image({}, [channelOrder |-> "RGBA", channelType |-> c], Desc2D, NullHost) :
     c \in FmtChannelInputs}

FmtInfoInputs == {"FORMAT", "ELEMENT_SIZE", "WIDTH"}

FmtCreate ==
  /\ NoneLive /\ Len(mem) < MaxFmtObj /\ Len(native) + 2 <= MaxFmtRes
  /\ \E i \in FmtImageInputs, f \in {{}, {1}, {2}}, nf \in BOOLEAN :
       urMemImageCreate(i.flags, i.format, i.desc, i.pHost, f, nf, <<0, 0>>)
  \* the request an image was created with
  /\ hist' = IF Len(mem') > Len(mem) THEN Append(hist, [request |-> last'.arg]) ELSE hist
  /\ UNCHANGED threadVars

FmtImageGetInfo ==
  /\ \E h \in Handles, p \in FmtInfoInputs, f \in {{}, {1}} : urMemImageGetInfo(h, p, f)
  /\ UNCHANGED <<hist, threadVars>>

FmtRelease ==
  /\ \E h \in Handles, f \in {{}, {1}} : urMemRelease(h, f)
  /\ UNCHANGED <<hist, threadVars>>

FmtNext ==
  \/ FmtCreate
  \/ FmtImageGetInfo
  \/ FmtRelease

FmtSpec == Init /\ [][FmtNext]_vars

(* ================================ claims =============================== *)

Objects == 1..Len(hist)

(* ---------------------------------- C1 --------------------------------- *)

\* C1 as stated: on a freshly created object, N >= 1 retains followed by N
\* releases have destroyed the object.
C1TornDownOnNthRelease ==
  \A h \in Objects :
    (hist[h].ordered /\ hist[h].rets >= 1 /\ hist[h].rels = hist[h].rets) => ~mem[h].live

\* C1, amended: on a freshly created object (count 1), N retains followed by
\* releases leave the object alive, with count 1 + N - k, after each of the
\* first N releases (k <= N), and tear it down on exactly the (N+1)th release:
\* the reference of the creation takes a release of its own.
C1Balanced ==
  \A h \in Objects :
    hist[h].ordered =>
      /\ hist[h].rels <= hist[h].rets + 1
      /\ (hist[h].rels <= hist[h].rets) =>
           /\ mem[h].live /\ mem[h].teardowns = 0
           /\ mem[h].RefCount = InitialReferenceCount + hist[h].rets - hist[h].rels
      /\ (hist[h].rels = hist[h].rets + 1) => (~mem[h].live /\ mem[h].teardowns = 1)

C1Witness ==
  \E h \in Objects :
    /\ hist[h].ordered /\ hist[h].rets >= 1 /\ hist[h].rels = hist[h].rets + 1
    /\ ~mem[h].live /\ mem[h].teardowns = 1

(* ---------------------------------- C2 --------------------------------- *)

CreateOps == {"urMemBufferCreate", "urMemBufferPartition", "urMemImageCreate"}

\* C2: the reference count of every object starts at 1 and is never negative,
\* and the object is torn down exactly once, at the release that brings the
\* count to 0: an object is torn down if and only if its count is 0, never
\* twice, and it is alive until then.
C2CountAndTeardown ==
  /\ \A h \in Handles :
       /\ mem[h].RefCount >= 0
       /\ mem[h].teardowns <= 1
       /\ (mem[h].teardowns = 1) <=> (mem[h].RefCount = 0)
       /\ mem[h].live <=> (mem[h].teardowns = 0)
  /\ (last.op \in CreateOps /\ last.result = SUCCESS) =>
       mem[last.out].RefCount = InitialReferenceCount

\* a retained object next to one a release has just torn down
C2Witness ==
  /\ last.op = "urMemRelease"
  /\ ~mem[last.h].live /\ mem[last.h].teardowns = 1 /\ mem[last.h].RefCount = 0
  /\ \E h \in Handles : mem[h].live /\ mem[h].RefCount = 2 /\ mem[h].held = 2

(* ---------------------------------- C3 --------------------------------- *)

RECURSIVE SumOwned(_)
SumOwned(t) == IF t = 0 THEN 0 ELSE owned[t] + SumOwned(t - 1)

TeardownStarted == ~mem[Obj].live \/ \E t \in Threads : pc[t] = "teardown"

\* C3: under every interleaving of retains and releases of several threads on
\* one object, no update of the count is lost (the count of a live object is
\* the number of references the threads own), the object is torn down at most
\* once, and no retain returns success once the teardown has started.
C3AtomicRetainRelease ==
  /\ mem[Obj].live => (mem[Obj].RefCount = SumOwned(NThreads))
  /\ mem[Obj].teardowns <= 1
  /\ (last.op = "RetainIncrement" /\ last.result = SUCCESS) => ~TeardownStarted

(* ---------------------------------- C4 --------------------------------- *)

\* urMemRelease has torn h down and returned
Released(h) ==
  /\ ~mem[h].live
  /\ ~(last.op = "urMemRelease" /\ last.h = h /\ last.result = DIED)

FreedBy(r, kind, fn) ==
  /\ native[r].kind = kind
  /\ ~native[r].live /\ native[r].frees = 1 /\ native[r].freedBy = fn

\* C4: once the release of a successfully created object has torn it down and
\* returned, the native resources its creation acquired are freed, each exactly
\* once and by the call of its allocation mode: the device allocation of a
\* Classic or CopyIn buffer by hipFree, the registration of a UseHostPtr buffer
\* by hipHostUnregister, the pinned memory of an AllocHostPtr buffer by
\* hipFreeHost, the surface of an image by hipDestroySurfaceObject and then its
\* array by hipFreeArray; a release frees nothing else, and nothing twice.
C4FreesWhatCreationAcquired ==
  /\ \A h \in Objects :
       (hist[h].result = SUCCESS /\ Released(h)) =>
         LET o == mem[h]
         IN /\ (isBuffer(o) /\ o.MemAllocMode \in {"Classic", "CopyIn"}) =>
                 (hist[h].acquired = {o.Ptr.id} /\ FreedBy(o.Ptr.id, "device", "hipFree"))
            /\ (isBuffer(o) /\ o.MemAllocMode = "UseHostPtr") =>
                 /\ hist[h].acquired = {o.HostPtr.id}
                 /\ FreedBy(o.HostPtr.id, "registered", "hipHostUnregister")
            /\ (isBuffer(o) /\ o.MemAllocMode = "AllocHostPtr") =>
                 /\ hist[h].acquired = {o.HostPtr.id}
                 /\ FreedBy(o.HostPtr.id, "pinned", "hipFreeHost")
            /\ isImage(o) =>
                 /\ hist[h].acquired = {o.Array, o.SurfObj}
                 /\ FreedBy(o.SurfObj, "surface", "hipDestroySurfaceObject")
                 /\ FreedBy(o.Array, "array", "hipFreeArray")
  /\ \A r \in 1..Len(native) : native[r].frees <= 1
  /\ (last.op = "urMemRelease") =>
       /\ \A i \in 1..Len(calls) : calls[i].id \in hist[last.h].acquired
       /\ last.result = SUCCESS =>
            Len(calls) = IF mem[last.h].live THEN 0 ELSE Cardinality(hist[last.h].acquired)
       /\ (isImage(mem[last.h]) /\ Len(calls) = 2) =>
            /\ calls[1].fn = "hipDestroySurfaceObject" /\ calls[1].id = mem[last.h].SurfObj
            /\ calls[2].fn = "hipFreeArray" /\ calls[2].id = mem[last.h].Array

\* a buffer of host-pinned memory, created and released once
C4Witness ==
  /\ last.op = "urMemRelease" /\ last.result = SUCCESS
  /\ hist[last.h].result = SUCCESS /\ hist[last.h].rets = 0 /\ hist[last.h].rels = 1
  /\ mem[last.h].MemAllocMode = "AllocHostPtr"
  /\ FreedBy(mem[last.h].HostPtr.id, "pinned", "hipFreeHost")

(* ---------------------------------- C5 --------------------------------- *)

TeardownCalls ==
  {"hipFree", "hipHostUnregister", "hipFreeHost", "hipDestroySurfaceObject", "hipFreeArray"}

C6RetainContract ==
  [][/\ (last'.op = "RetainCheck") =>
          /\ mem' = mem /\ native' = native
          /\ (mem[Obj].RefCount <= 0) => (last'.result = INVALID_MEM_OBJECT /\ pc' = pc)
          /\ (mem[Obj].RefCount > 0) =>
               (last'.result = "pending" /\ pc'[last'.h] = "increment")
     /\ (last'.op = "RetainIncrement" /\ mem[Obj].live) =>
          /\ last'.result = SUCCESS
          /\ mem' = [mem EXCEPT ![Obj].RefCount = @ + 1]
          /\ native' = native]_vars

\* a retain between the last release's decrement and its delete
C6Witness ==
  /\ last.op = "RetainCheck" /\ last.result = INVALID_MEM_OBJECT
  /\ mem[Obj].live /\ mem[Obj].RefCount = 0
  /\ tres[last.h] = INVALID_MEM_OBJECT

(* ---------------------------------- C7 --------------------------------- *)

AllocationCalls == {"hipMalloc", "hipHostMalloc", "hipHostRegister"}

\* C7: when urMemBufferCreate returns the error of a failed native call, the
\* output parameter carries no handle and every native resource the call
\* acquired has been released.
C7FailedCreateUnwinds ==
  (last.op = "urMemBufferCreate" /\ last.result = NATIVE_ERROR) =>
    /\ last.out = 0
    /\ \A i \in 1..Len(calls) :
         (calls[i].fn \in AllocationCalls /\ calls[i].ok) => ~native[calls[i].id].live

(* ---------------------------------- C8 --------------------------------- *)

Copies == {i \in 1..Len(calls) : calls[i].fn = "hipMemcpyHtoD"}

\* C8: when urMemBufferCreate with ALLOC_COPY_HOST_POINTER returns success, it
\* has issued exactly one host-to-device copy, of the requested size, from the
\* caller's host pointer into the new buffer, and a stream synchronization
\* after it.
C8CopiesCallerData ==
  (/\ last.op = "urMemBufferCreate"
   /\ last.result = SUCCESS
   /\ ALLOC_COPY_HOST_POINTER \in last.arg.flags) =>
    /\ Cardinality(Copies) = 1
    /\ \A i \in Copies :
         /\ calls[i].src = CallerHost
         /\ calls[i].size = last.arg.size
         /\ calls[i].id = mem[last.out].Ptr.id
         /\ i < Len(calls) /\ calls[i + 1].fn = "hipStreamSynchronize" /\ calls[i + 1].ok

(* ---------------------------------- C9 --------------------------------- *)

InvalidArgument ==
  {INVALID_ENUMERATION, INVALID_BUFFER_SIZE, INVALID_HOST_PTR,
   INVALID_IMAGE_FORMAT_DESCRIPTOR, INVALID_VALUE}

CheckedOps ==
  {"urMemBufferCreate", "urMemBufferPartition", "urMemImageCreate", "urMemGetInfo",
   "urMemImageGetInfo"}

\* C9: an operation that returns an invalid-argument result has made no native
\* driver call and has left every memory object and native resource as it was.
C9RejectedBeforeNativeCalls ==
  [][(last'.op \in CheckedOps /\ last'.result \in InvalidArgument) =>
       (calls' = <<>> /\ mem' = mem /\ native' = native)]_vars

(* ---------------------------------- C10 -------------------------------- *)

\* C10: a partition of a buffer of size S into {origin, size} succeeds only if
\* origin + size, as a sum of naturals, is at most S, and a region of nonzero
\* size that reaches the bounds check with a greater sum is refused with
\* ERROR_INVALID_BUFFER_SIZE.
C10RegionWithinParent ==
  (last.op = "urMemBufferPartition") =>
    LET S == mem[last.h].Size
        sum == last.arg.origin + last.arg.size
    IN /\ (last.result = SUCCESS) => (sum <= S)
       /\ (last.result = INVALID_BUFFER_SIZE /\ last.arg.size # 0) => (sum > S)
       /\ (last.result \in {SUCCESS, NATIVE_ERROR, OUT_OF_HOST_MEMORY}) => (sum <= S)

(* ---------------------------------- C11 -------------------------------- *)

IsPartitionOf(h) == last.op = "urMemBufferPartition" /\ last.h = h

NoNestedParents ==
  \A h \in Handles :
    mem[h].Parent # 0 => (isBuffer(mem[mem[h].Parent]) /\ mem[mem[h].Parent].Parent = 0)

\* C11 as stated: a partition of a sub-buffer fails with
\* ERROR_INVALID_MEM_OBJECT whatever its flags and region are, and no object
\* has a parent that has a parent.
C11AlwaysInvalidMemObject ==
  /\ (last.op = "urMemBufferPartition" /\ isSubBuffer(mem[last.h])) =>
       last.result = INVALID_MEM_OBJECT
  /\ NoNestedParents

\* C11, amended: a partition of a sub-buffer always fails and creates no
\* child: with ERROR_INVALID_ENUMERATION when its flags have a bit outside the
\* mask (the first check), with ERROR_INVALID_MEM_OBJECT for every other flags,
\* creation type and region; so no object has a parent that has a parent.
C11NoChainedPartition ==
  /\ (last.op = "urMemBufferPartition" /\ isSubBuffer(mem[last.h])) =>
       /\ last.result = IF UNKNOWN_BIT \in last.arg.flags
                        THEN INVALID_ENUMERATION ELSE INVALID_MEM_OBJECT
       /\ ~last.wrote /\ last.out = 0
       /\ \A c \in Handles : mem[c].Parent # last.h
  /\ NoNestedParents

\* a live sub-buffer refused as a parent, for a region its size would admit
C11Witness ==
  /\ last.op = "urMemBufferPartition" /\ last.result = INVALID_MEM_OBJECT
  /\ isSubBuffer(mem[last.h]) /\ mem[last.h].live
  /\ last.arg.type = "REGION" /\ last.arg.size # 0
  /\ last.arg.origin + last.arg.size <= mem[last.h].Size

(* ---------------------------------- C12 -------------------------------- *)

HostPointerFlags == {ALLOC_COPY_HOST_POINTER, ALLOC_HOST_POINTER, USE_HOST_POINTER}

\* the child's flags, 0 read as read-write
ChildClass(flags) == IF flags = {} THEN {READ_WRITE} ELSE flags

ChildContradicts(parent, flags) ==
  \/ WRITE_ONLY \in parent.MemFlags /\ (READ_ONLY \in ChildClass(flags) \/ READ_WRITE \in ChildClass(flags))
  \/ READ_ONLY \in parent.MemFlags /\ (WRITE_ONLY \in ChildClass(flags) \/ READ_WRITE \in ChildClass(flags))

\* C12: a partition of a buffer that is no sub-buffer, with flags inside the
\* mask and without host-pointer flags, fails with ERROR_INVALID_VALUE and
\* changes nothing when the child's access class contradicts the parent's
\* (flags 0 read as read-write); when it does not, and the creation type is
\* REGION and the region is nonempty and inside the parent, it creates the
\* child with those flags, unless the construction of the child fails.
C12AccessClass ==
  [][(/\ last'.op = "urMemBufferPartition"
      /\ isBuffer(mem[last'.h]) /\ ~isSubBuffer(mem[last'.h])
      /\ UNKNOWN_BIT \notin last'.arg.flags
      /\ last'.arg.flags \cap HostPointerFlags = {}) =>
       LET parent == mem[last'.h]
           a == last'.arg
       IN /\ ChildContradicts(parent, a.flags) =>
               /\ last'.result = INVALID_VALUE
               /\ ~last'.wrote /\ mem' = mem /\ native' = native
          /\ (/\ ~ChildContradicts(parent, a.flags)
              /\ a.type = "REGION" /\ a.size # 0 /\ a.origin + a.size <= parent.Size) =>
               \/ last'.result \in {NATIVE_ERROR, OUT_OF_HOST_MEMORY}
               \/ /\ last'.result = SUCCESS
                  /\ Len(mem') = Len(mem) + 1 /\ last'.out = Len(mem')
                  /\ mem'[last'.out].Parent = last'.h
                  /\ mem'[last'.out].MemFlags = ChildClass(a.flags)]_vars

\* a read-only parent refuses a child of the default (read-write) class
C12Witness ==
  /\ last.op = "urMemBufferPartition" /\ last.result = INVALID_VALUE
  /\ mem[last.h].MemFlags = {READ_ONLY} /\ last.arg.flags = {}

(* ---------------------------------- C13 -------------------------------- *)

\* C13: a urMemBufferPartition that returns an error, from a check or from
\* the construction of the child, leaves the reference count of the parent
\* and every object and native resource as they were (the parent is not torn
\* down, no child exists) and gives the caller no handle.
C13FailedPartitionUndone ==
  [][(last'.op = "urMemBufferPartition" /\ last'.result # SUCCESS) =>
       /\ mem'[last'.h].RefCount = mem[last'.h].RefCount
       /\ mem'[last'.h].live /\ mem'[last'.h].teardowns = 0
       /\ mem' = mem /\ native' = native
       /\ last'.out = 0]_vars

\* the construction of the child failed after every check had passed
C13Witness ==
  /\ last.op = "urMemBufferPartition"
  /\ last.result \in {NATIVE_ERROR, OUT_OF_HOST_MEMORY}
  /\ last.wrote /\ last.out = 0
  /\ mem[last.h].live /\ mem[last.h].RefCount = mem[last.h].held
  /\ \A c \in Handles : mem[c].Parent = 0

(* ---------------------------------- C14 -------------------------------- *)

LiveChildren(h) == {c \in Handles : mem[c].Parent = h /\ mem[c].live}

\* C14: while a sub-buffer is alive its parent is alive, with its allocation,
\* whatever the callers have released; the release of the last reference of a
\* sub-buffer makes no native call for the sub-buffer, deletes it and releases
\* the parent once (freeing the parent's allocation when that was the last
\* reference of the parent); no allocation is freed twice, and the allocation
\* of a parent that has been torn down by a release that returned is freed.
C14ParentOutlivesChild ==
  [][/\ \A c \in Handles :
          (isSubBuffer(mem'[c]) /\ mem'[c].live) =>
            LET parent == mem'[mem'[c].Parent]
            IN /\ parent.live /\ parent.teardowns = 0
               /\ parent.RefCount >= parent.held + 1
               /\ native'[parent.Ptr.id].live /\ native'[parent.Ptr.id].frees = 0
     /\ \A r \in 1..Len(native') : native'[r].frees <= 1
     /\ \A h \in Handles :
          (~mem'[h].live /\ ~isSubBuffer(mem'[h]) /\ last'.result # DIED) =>
            native'[mem'[h].Ptr.id].frees = 1
     /\ (/\ last'.op = "urMemRelease"
         /\ isSubBuffer(mem[last'.h]) /\ mem[last'.h].RefCount = 1) =>
          LET c == last'.h
              p == mem[c].Parent
          IN /\ ~mem'[c].live /\ mem'[c].teardowns = 1
             /\ mem'[p].RefCount = mem[p].RefCount - 1
             /\ \A i \in 1..Len(calls') :
                  calls'[i].fn = "hipFree" /\ calls'[i].id = mem[p].Ptr.id
             /\ Len(calls') = IF mem[p].RefCount = 1 THEN 1 ELSE 0
             /\ mem'[p].live <=> (mem[p].RefCount > 1)]_vars

\* the last sub-buffer goes after the callers gave up the parent: its release
\* frees the parent's allocation
C14Witness ==
  /\ last.op = "urMemRelease" /\ last.result = SUCCESS
  /\ isSubBuffer(mem[last.h]) /\ ~mem[last.h].live
  /\ ~mem[mem[last.h].Parent].live /\ mem[mem[last.h].Parent].teardowns = 1
  /\ Len(calls) = 1 /\ calls[1].fn = "hipFree"
  /\ native[mem[mem[last.h].Parent].Ptr.id].frees = 1

(* ---------------------------------- C15 -------------------------------- *)

\* the channel types of the eight native pixel formats
SupportedChannelTypes ==
  {"UNORM_INT8", "UNSIGNED_INT8", "SIGNED_INT8", "UNORM_INT16", "UNSIGNED_INT16",
   "SIGNED_INT16", "HALF_FLOAT", "UNSIGNED_INT32", "SIGNED_INT32", "FLOAT"}

\* the request passes the checks of its flags, host pointer and descriptor type
PreambleOk(a) ==
  /\ UNKNOWN_BIT \notin a.flags
  /\ (a.flags \cap {ALLOC_COPY_HOST_POINTER, USE_HOST_POINTER} # {}) => a.pHost # NullHost
  /\ a.desc.stype = "IMAGE_DESC" /\ a.desc.type \in AcceptedTypes

DescriptorDefect(a) ==
  \/ a.desc.numMipLevel # 0
  \/ a.desc.numSamples # 0
  \/ a.pHost = NullHost /\ (a.desc.rowPitch # 0 \/ a.desc.slicePitch # 0)

\* C15: urMemImageCreate refuses, before any native call and without a handle,
\* a descriptor with a nonzero mip-level or sample count, or with a nonzero
\* row or slice pitch and no host pointer; a channel order other than RGBA; a
\* channel type outside the eight native formats.  For a request whose flags,
\* host pointer and descriptor type are valid the result is
\* ERROR_INVALID_IMAGE_FORMAT_DESCRIPTOR for the descriptor, else
\* ERROR_UNSUPPORTED_ENUMERATION for the channel order, else
\* ERROR_INVALID_IMAGE_FORMAT_DESCRIPTOR for the channel type.
C15ImageRejections ==
  [][(last'.op = "urMemImageCreate") =>
       LET a == last'.arg
       IN /\ (\/ DescriptorDefect(a)
              \/ a.format.channelOrder # "RGBA"
              \/ a.format.channelType \notin SupportedChannelTypes) =>
               /\ last'.result \notin {SUCCESS, NATIVE_ERROR, THROWN, UNKNOWN}
               /\ calls' = <<>> /\ mem' = mem /\ native' = native
               /\ ~last'.wrote /\ last'.out = 0
          /\ (PreambleOk(a) /\ DescriptorDefect(a)) =>
               last'.result = INVALID_IMAGE_FORMAT_DESCRIPTOR
          /\ (PreambleOk(a) /\ ~DescriptorDefect(a) /\ a.format.channelOrder # "RGBA") =>
               last'.result = UNSUPPORTED_ENUMERATION
          /\ (/\ PreambleOk(a) /\ ~DescriptorDefect(a) /\ a.format.channelOrder = "RGBA"
              /\ a.format.channelType \notin SupportedChannelTypes) =>
               last'.result = INVALID_IMAGE_FORMAT_DESCRIPTOR]_vars

\* an unmapped channel type, on a request with no other defect
C15Witness ==
  /\ last.op = "urMemImageCreate" /\ last.result = INVALID_IMAGE_FORMAT_DESCRIPTOR
  /\ PreambleOk(last.arg) /\ ~DescriptorDefect(last.arg)
  /\ last.arg.format.channelOrder = "RGBA"
  /\ last.arg.format.channelType \notin SupportedChannelTypes
  /\ calls = <<>> /\ mem = <<>>

(* ---------------------------------- C16 -------------------------------- *)

CopyRequired(a) == a.flags \cap {ALLOC_COPY_HOST_POINTER, USE_HOST_POINTER} # {}

CopyRoutines == {"hipMemcpyHtoA", "hipMemcpyParam2D", "hipDrvMemcpy3D"}

CallNames == [i \in 1..Len(calls) |-> calls[i].fn]

\* C16: a successful urMemImageCreate has made one array creation, then, if
\* and only if the flags require an initial copy, one host-to-array copy (for
\* a 1D, 2D or 3D image through the routine of that dimensionality), then one
\* surface creation; no image whose flags require the copy is created
\* without it.
C16CreateSequence ==
  (last.op = "urMemImageCreate" /\ last.result = SUCCESS) =>
    LET a == last.arg
    IN /\ ~CopyRequired(a) => CallNames = <<"hipArray3DCreate", "hipCreateSurfaceObject">>
       /\ CopyRequired(a) =>
            /\ Len(calls) = 3
            /\ calls[1].fn = "hipArray3DCreate"
            /\ calls[2].fn \in CopyRoutines /\ calls[2].src = a.pHost
            /\ calls[3].fn = "hipCreateSurfaceObject"
            /\ a.desc.type = "IMAGE1D" => calls[2].fn = "hipMemcpyHtoA"
            /\ a.desc.type = "IMAGE2D" => calls[2].fn = "hipMemcpyParam2D"
            /\ a.desc.type = "IMAGE3D" => calls[2].fn = "hipDrvMemcpy3D"

(* ---------------------------------- C17 -------------------------------- *)

ImageResourceCalls == {"hipArray3DCreate", "hipCreateSurfaceObject"}

\* C17: when a native call or the construction of the object fails inside
\* urMemImageCreate, the call returns an error result, gives the caller no
\* handle, and has destroyed every array and surface it created.
C17FailedImageUnwinds ==
  (last.op = "urMemImageCreate" /\ last.result \in {NATIVE_ERROR, UNKNOWN, THROWN}) =>
    /\ last.result # THROWN
    /\ last.out = 0
    /\ \A i \in 1..Len(calls) :
         (calls[i].fn \in ImageResourceCalls /\ calls[i].ok) => ~native[calls[i].id].live

(* ---------------------------------- C18 -------------------------------- *)

SynchronizeCalls == {"hipStreamSynchronize", "hipDeviceSynchronize"}

\* C18: when urMemImageCreate succeeds after copying initial host data, it has
\* waited for the device after the copy.
C18ImageCopySynchronized ==
  (last.op = "urMemImageCreate" /\ last.result = SUCCESS) =>
    \A i \in 1..Len(calls) :
      calls[i].fn \in CopyRoutines =>
        \E j \in (i + 1)..Len(calls) : calls[j].fn \in SynchronizeCalls /\ calls[j].ok

(* ---------------------------------- C19 -------------------------------- *)

\* C19: a row-pitch or slice-pitch query of an image fails with
\* ERROR_UNSUPPORTED_ENUMERATION, also when the native query of the array
\* descriptor fails, and writes no value.
C19PitchUnsupported ==
  (/\ last.op = "urMemImageGetInfo"
   /\ last.arg \in {"ROW_PITCH", "SLICE_PITCH"}
   /\ isImage(mem[last.h])) =>
    (last.result = UNSUPPORTED_ENUMERATION /\ ~last.wrote)

(* ---------------------------------- C20 -------------------------------- *)

ElementSize(channelType) ==
  CASE channelType \in {"UNORM_INT8", "UNSIGNED_INT8", "SIGNED_INT8"} -> 1
    [] channelType \in {"UNORM_INT16", "UNSIGNED_INT16", "SIGNED_INT16", "HALF_FLOAT"} -> 2
    [] channelType \in {"UNSIGNED_INT32", "SIGNED_INT32", "FLOAT"} -> 4

AtLeastOne(n) == IF n > 1 THEN n ELSE 1

\* C20: the size query of a live image returns element size x 4 channels x
\* max(1, width) x max(1, height) x max(1, depth) of the native array
\* descriptor; for an image created as 1D, 2D or 3D with width w, height h,
\* depth d and element size e that is 4ew, 4ewh, 4ewhd; and a urMemGetInfo
\* changes no object and no native resource.
C20SurfaceSize ==
  [][(last'.op = "urMemGetInfo") =>
       /\ mem' = mem /\ native' = native
       /\ (last'.arg = "SIZE" /\ isImage(mem[last'.h]) /\ last'.result = SUCCESS) =>
            LET r == hist[last'.h].request
                e == ElementSize(r.format.channelType)
                n == native[mem[last'.h].Array].desc
            IN /\ last'.wrote
               /\ last'.out = e * n.NumChannels * AtLeastOne(n.Width) * AtLeastOne(n.Height)
                                * AtLeastOne(n.Depth)
               /\ r.desc.type = "IMAGE1D" => last'.out = 4 * e * r.desc.width
               /\ r.desc.type = "IMAGE2D" => last'.out = 4 * e * r.desc.width * r.desc.height
               /\ r.desc.type = "IMAGE3D" =>
                    last'.out = 4 * e * r.desc.width * r.desc.height * r.desc.depth]_vars

\* the size of a 1D image of 2-byte elements, whose descriptor has height 0
C20Witness ==
  /\ last.op = "urMemGetInfo" /\ last.arg = "SIZE" /\ last.result = SUCCESS
  /\ isImage(mem[last.h]) /\ mem[last.h].live
  /\ hist[last.h].request.desc.type = "IMAGE1D"
  /\ native[mem[last.h].Array].desc.Height = 0
  /\ ElementSize(hist[last.h].request.format.channelType) = 2
  /\ last.out = 4 * 2 * hist[last.h].request.desc.width

(* ---------------------------------- C21 -------------------------------- *)

\* the error of the earliest violated check in the order flags mask, parent
\* is a buffer, parent is no sub-buffer, region size nonzero, access class,
\* origin + size within the parent, parent pointer non-null; "none" when the
\* request violates none of them
StatedOrderError(parent, a) ==
  IF UNKNOWN_BIT \in a.flags THEN INVALID_ENUMERATION
  ELSE IF ~isBuffer(parent) THEN INVALID_MEM_OBJECT
  ELSE IF isSubBuffer(parent) THEN INVALID_MEM_OBJECT
  ELSE IF a.size = 0 THEN INVALID_BUFFER_SIZE
  ELSE IF ChildContradicts(parent, a.flags) THEN INVALID_VALUE
  ELSE IF a.origin + a.size > parent.Size THEN INVALID_BUFFER_SIZE
  ELSE IF parent.Ptr.id = 0 THEN INVALID_MEM_OBJECT
  ELSE "none"

\* C21: a urMemBufferPartition of creation type REGION without host-pointer
\* flags whose request violates one or more of the seven checks returns the
\* error of the earliest violated check in the stated order (region size
\* before access class); so a zero-size region with flags that contradict
\* the parent's access class returns ERROR_INVALID_BUFFER_SIZE.
C21StatedCheckOrder ==
  [][(/\ last'.op = "urMemBufferPartition"
      /\ last'.arg.type = "REGION"
      /\ last'.arg.flags \cap HostPointerFlags = {}
      /\ StatedOrderError(mem[last'.h], last'.arg) # "none") =>
       last'.result = StatedOrderError(mem[last'.h], last'.arg)]_vars

(* ---------------------------------- C22 -------------------------------- *)

\* the native driver calls of the last operation made outside every
\* activation of the device context
UnboundCalls == {i \in 1..Len(calls) : ~calls[i].active}

\* C22: every native driver call of every operation is made while the
\* operation holds an activation of the device context, and when the
\* operation ends, by a return, by an error result or by a throw to its
\* caller, it holds no activation: the activation depth is the one before
\* the call.
C22ActivationScoped ==
  /\ UnboundCalls = {}
  /\ last.depth = 0

\* a urMemImageCreate whose surface creation failed: the array is created
\* and freed again by the handler, all while the activation is held
C22Witness ==
  /\ last.op = "urMemImageCreate" /\ last.result = NATIVE_ERROR
  /\ Len(calls) = 3 /\ calls[3].fn = "hipFreeArray" /\ calls[3].active
  /\ last.depth = 0

(* ---------------------------------- C23 -------------------------------- *)

\* the channel types the format query gives back unchanged
ExactChannelTypes ==
  {"UNSIGNED_INT8", "SIGNED_INT8", "UNSIGNED_INT16", "SIGNED_INT16", "UNSIGNED_INT32",
   "SIGNED_INT32", "HALF_FLOAT", "FLOAT"}

NormalizedChannelTypes == {"UNORM_INT8", "UNORM_INT16"}

\* the channel type the format query answers for an image created with c
QueriedChannelType(c) ==
  CASE c = "UNORM_INT8" -> "UNSIGNED_INT8"
    [] c = "UNORM_INT16" -> "UNSIGNED_INT16"
    [] OTHER -> c

\* C23: a urMemImageCreate with RGBA order and one of the ten channel types
\* (8-, 16-, 32-bit signed or unsigned integer, half float, float, UNORM_INT8,
\* UNORM_INT16) is not refused for its format; on the image it creates the
\* format query answers RGBA and the same channel type for the eight exact
\* types, UNSIGNED_INT8 for UNORM_INT8 and UNSIGNED_INT16 for UNORM_INT16,
\* and the element-size query answers the channel's byte size (1, 2 or 4);
\* the ten types map onto eight native formats.
C23FormatRoundTrip ==
  [][/\ (/\ last'.op = "urMemImageCreate"
         /\ last'.arg \in FmtImageInputs
         /\ last'.arg.format.channelType \in ExactChannelTypes \cup NormalizedChannelTypes) =>
          /\ last'.result \in {SUCCESS, NATIVE_ERROR, UNKNOWN, THROWN}
          /\ last'.result = SUCCESS =>
               native'[mem'[last'.out].Array].desc.Format
                 = HipFormat(last'.arg.format.channelType)
     /\ (/\ last'.op = "urMemImageGetInfo" /\ last'.result = SUCCESS
         /\ last'.arg \in {"FORMAT", "ELEMENT_SIZE"}) =>
          LET c == hist[last'.h].request.format.channelType
          IN /\ last'.wrote
             /\ c \in ExactChannelTypes \cup NormalizedChannelTypes
             /\ last'.arg = "FORMAT" =>
                  /\ last'.out = [order |-> "RGBA", type |-> QueriedChannelType(c)]
                  /\ (c \in ExactChannelTypes) = (last'.out.type = c)
             /\ last'.arg = "ELEMENT_SIZE" => last'.out = ElementSize(c)
             /\ Cardinality({HipFormat(t) : t \in ExactChannelTypes \cup NormalizedChannelTypes})
                  = 8]_vars

\* the format query of an image created as UNORM_INT16 answers UNSIGNED_INT16
C23Witness ==
  /\ last.op = "urMemImageGetInfo" /\ last.arg = "FORMAT" /\ last.result = SUCCESS
  /\ mem[last.h].live
  /\ hist[last.h].request.format.channelType = "UNORM_INT16"
  /\ last.out = [order |-> "RGBA", type |-> "UNSIGNED_INT16"]

====
